---- MODULE Spec2Model ----
(***************************************************************************)
(* A model of simulators/mujoco/generic/controller.py: the capability      *)
(* reconciliation of the start-up code, the construction of the sensor     *)
(* descriptors, check_the_flag(), action() and the runtime loop.           *)
(*                                                                         *)
(* Python dicts are functions over their key sets; a dict whose iteration  *)
(* order matters is a sequence of its items in insertion order.            *)
(***************************************************************************)
EXTENDS Integers, Sequences, FiniteSets, TLC

VARIABLES
    \* ---- capability reconciliation (controller.py 192-268)
    config_capabilities,        \* config['capabilities'] as loaded (the template)
    capabilities,               \* the dict being reconciled
    sensor_information,         \* items of the dict, in insertion order
    actuator_information,       \* items of the dict, in insertion order
    list_to_not_delete_device,  \* the list of categories seen
    increment,
    temp_copy_property_input,
    temp_copy_property_output,
    pc,                         \* position in the code
    idx,                        \* position of the running for loop
    \* ---- sensor descriptors (controller.py 208-218)
    model_sensors,              \* model.sensor(i), i = 0..nsensor-1
    xml_input,                  \* xml_actuators_type['input']
    sensor_name,                \* the local of the loop body
    \* ---- check_the_flag (controller.py 106-135)
    given_argv,                 \* sys.argv[1:] as the process was started
    sys_argv,                   \* sys.argv[1:]
    path,                       \* args.model_xml_path
    \* ---- action() and the runtime loop (controller.py 52-70, 290-548)
    ctrl,                       \* data.ctrl
    message_from_feagi,         \* the inbound payloads
    force_list,
    viewer_running,             \* viewer.is_running()
    now,                        \* time.time(), in clock units
    start_time,
    step_start,
    ticks,                      \* iterations of the loop completed
    tick_work,                  \* time from step_start to the sleep of the tick
    in_budget                   \* every tick so far kept its work in budget

reconVars == <<config_capabilities, capabilities, sensor_information,
               actuator_information, list_to_not_delete_device, increment,
               temp_copy_property_input, temp_copy_property_output, pc, idx>>

sensorVars == <<model_sensors, xml_input, sensor_name>>

flagVars == <<given_argv, sys_argv, path>>

actionVars == <<ctrl, message_from_feagi>>

loopVars == <<force_list, viewer_running, now, start_time, step_start, ticks,
              tick_work, in_budget>>

\* the reconciliation's own part of the state
reconData == <<config_capabilities, capabilities, actuator_information,
               list_to_not_delete_device, increment,
               temp_copy_property_input, temp_copy_property_output>>

vars == <<reconVars, sensorVars, flagVars, actionVars, loopVars>>

(***************************************************************************)
(* Bounds of the model.                                                    *)
(***************************************************************************)
MaxDevices == 4      \* sensors plus actuators of a scene
MaxTmplKeys == 2     \* index keys a template category holds
MaxSensors == 2      \* sensors of a model, for the sensor descriptors
MaxArgs == 3         \* arguments of a command line
MaxActuators == 3    \* control slots, for action()
MaxPayload == 2      \* channels of one inbound payload, for action()
TickBudget == 2      \* clock units in one tick period 1 / SPEED
MaxSend == 1         \* clock units one send to FEAGI may take
MaxTicks == 3        \* iterations of the runtime loop
MaxContacts == 21    \* active contacts of one tick (data.ncon)

(***************************************************************************)
(* Helpers for dicts and lists.                                            *)
(***************************************************************************)
Range(s) == {s[i] : i \in DOMAIN s}

SeqsUpTo(S, n) == UNION {[1..k -> S] : k \in 0..n}

EmptyDict == <<>>

\* d[k] = v of Python: the key is added when it is not there
DictSet(d, k, v) == [x \in (DOMAIN d) \cup {k} |-> IF x = k THEN v ELSE d[x]]

\* del d[k] for every k outside keep
DictKeep(d, keep) == [x \in (DOMAIN d) \cap keep |-> d[x]]

\* Python's None, which is the key of no dict here
None == "<None>"

(***************************************************************************)
(* The lookup tables.                                                      *)
(***************************************************************************)
TRANSMISSION_TYPES(t) ==
    CASE t = "position" -> "servo"
      [] t = "motor" -> "motor"
      [] OTHER -> None

\* SENSING_TYPES.get(type, 'gyro'): a default category instead of None
SensingTypesWithDefault(t) ==
    CASE t = "framequat" -> "gyro"
      [] t = "distance" -> "proximity"
      [] t = "rangefinder" -> "camera"
      [] OTHER -> "gyro"

SENSING_TYPES(t) ==
    CASE t = "framequat" -> "gyro"
      [] t = "distance" -> "proximity"
      [] t = "rangefinder" -> "camera"
      [] OTHER -> None

(***************************************************************************)
(* The inputs: scenes and capability templates.                            *)
(***************************************************************************)
SensorTags == {"framequat", "distance", "rangefinder", "touch"}

\* the i-th sensor of the scene is named s<i>, the i-th actuator a<i>
SensorName(i) == <<"s", i>>
ActuatorName(i) == <<"a", i>>

\* type and ctrlrange of an actuator, as they come from the scene
ActuatorDecls ==
    { [type |-> "position", range |-> <<-1, 1>>],
      [type |-> "position", range |-> <<0, 2>>],
      [type |-> "motor", range |-> <<-3, 3>>],
      [type |-> "general", range |-> <<0, 0>>] }

SensorInformations ==
    { [i \in DOMAIN s |-> [name |-> SensorName(i), type |-> s[i]]] :
        s \in SeqsUpTo(SensorTags, MaxDevices) }

ActuatorInformations ==
    { [i \in DOMAIN s |-> [name |-> ActuatorName(i), type |-> s[i].type,
                           range |-> s[i].range]] :
        s \in SeqsUpTo(ActuatorDecls, MaxDevices) }

\* The entry a template holds at section sec, category cat, index key k.
\* template_of stands for the fields of the entry the controller never
\* writes; the other fields are the ones it may overwrite.
TemplateEntry(sec, cat, k) ==
    LET base == [custom_name |-> <<"template", cat, k>>,
                 feagi_index |-> k,
                 template_of |-> <<sec, cat>>]
    IN CASE cat = "servo" ->
              DictSet(DictSet(base, "min_value", -9), "max_value", 9)
         [] cat = "motor" ->
              DictSet(DictSet(base, "max_power", 9), "rolling_window_len", 5)
         [] OTHER -> base

TemplateSection(sec, cats, n) ==
    [cat \in cats |-> [key \in {ToString(k) : k \in 0..(n - 1)} |->
        TemplateEntry(sec, cat, CHOOSE k \in 0..(n - 1) : ToString(k) = key)]]

\* the categories of the input and of the output section of a template
TemplateShapes ==
    { <<{"gyro", "proximity", "camera"}, {"servo", "motor"}>>,
      <<{"gyro"}, {"servo"}>>,
      <<{"gyro", "proximity", "motor"}, {"servo", "motor", "gyro"}>> }

Templates ==
    { [input |-> TemplateSection("input", sh[1], n),
       output |-> TemplateSection("output", sh[2], n)] :
        sh \in TemplateShapes, n \in 0..MaxTmplKeys }

\* pns.message_from_feagi before FEAGI has sent anything: no payload at all
NoMessage == [servo_position |-> <<>>, servo |-> <<>>]

(***************************************************************************)
(* The parts of the state a specification does not run.                    *)
(***************************************************************************)
IdleRecon ==
    /\ config_capabilities = [input |-> EmptyDict, output |-> EmptyDict]
    /\ capabilities = config_capabilities
    /\ actuator_information = <<>>
    /\ list_to_not_delete_device = <<>>
    /\ increment = 0
    /\ temp_copy_property_input = EmptyDict
    /\ temp_copy_property_output = EmptyDict

IdleSensors ==
    /\ model_sensors = <<>>
    /\ xml_input = EmptyDict
    /\ sensor_name = None

IdleFlag ==
    /\ given_argv = <<>>
    /\ sys_argv = <<>>
    /\ path = None

IdleAction ==
    /\ ctrl = <<>>
    /\ message_from_feagi = NoMessage

IdleLoop ==
    /\ force_list = EmptyDict
    /\ viewer_running = FALSE
    /\ now = 0
    /\ start_time = 0
    /\ step_start = 0
    /\ ticks = 0
    /\ tick_work = 0
    /\ in_budget = TRUE

(***************************************************************************)
(* The reconciliation.                                                     *)
(***************************************************************************)
Init ==
    /\ IdleSensors /\ IdleFlag /\ IdleAction /\ IdleLoop
    /\ config_capabilities \in Templates
    /\ capabilities = config_capabilities
    /\ sensor_information \in SensorInformations
    /\ actuator_information \in ActuatorInformations
    /\ Len(sensor_information) + Len(actuator_information) <= MaxDevices
    /\ list_to_not_delete_device = <<>>
    /\ increment = 0
    /\ temp_copy_property_input = EmptyDict
    /\ temp_copy_property_output = EmptyDict
    /\ pc = "sensors"
    /\ idx = 1

\* lines 227-231: the value of increment for a device of category device_name
NextIncrement(device_name) ==
    IF device_name \notin Range(list_to_not_delete_device)
    THEN 0
    ELSE increment + 1

\* lines 227-229: the list after a device of category device_name
NextSeen(device_name) ==
    IF device_name \notin Range(list_to_not_delete_device)
    THEN Append(list_to_not_delete_device, device_name)
    ELSE list_to_not_delete_device

\* lines 233-236: the record written for the sensor
SensorEntry(base, mujoco_device_name, inc) ==
    DictSet(DictSet(base, "custom_name", mujoco_device_name),
            "feagi_index", inc)

\* ActuatorLimits with min_value read from the upper end of the range
ActuatorLimitsUpperOnly(base, device_name, range_control) ==
    CASE device_name = "servo" ->
           DictSet(DictSet(base, "max_value", range_control[2]),
                   "min_value", range_control[2])
      [] device_name = "motor" ->
           DictSet(DictSet(base, "max_power", range_control[2]),
                   "rolling_window_len", 2)
      [] OTHER -> base

\* lines 254-259: the limits of an actuator entry
ActuatorLimits(base, device_name, range_control) ==
    CASE device_name = "servo" ->
           DictSet(DictSet(base, "max_value", range_control[2]),
                   "min_value", range_control[1])
      [] device_name = "motor" ->
           DictSet(DictSet(base, "max_power", range_control[2]),
                   "rolling_window_len", 2)
      [] OTHER -> base

\* lines 254-261: the record written for the actuator
ActuatorEntry(base, device_name, range_control, mujoco_device_name, inc) ==
    DictSet(DictSet(ActuatorLimits(base, device_name, range_control),
                    "custom_name", mujoco_device_name),
            "feagi_index", inc)

\* capabilities[sec][device_name][device_id] = entry
CapSet(sec, device_name, device_id, entry) ==
    [capabilities EXCEPT ![sec] =
        [@ EXCEPT ![device_name] = DictSet(@, device_id, entry)]]

\* one iteration of the loop of lines 224-237
SensorStep ==
    /\ pc = "sensors"
    /\ idx <= Len(sensor_information)
    /\ LET mujoco_device_name == sensor_information[idx].name
           device_name == SENSING_TYPES(sensor_information[idx].type)
           inc == NextIncrement(device_name)
           device_id == ToString(inc)
       IN IF device_name \in DOMAIN capabilities.input
          THEN /\ increment' = inc
               /\ list_to_not_delete_device' = NextSeen(device_name)
               /\ IF inc = 0 /\ device_id \notin DOMAIN capabilities.input[device_name]
                  THEN \* KeyError at line 234
                       /\ pc' = "error"
                       /\ UNCHANGED <<capabilities, temp_copy_property_input, idx>>
                  ELSE LET base == IF inc = 0
                                   THEN capabilities.input[device_name][device_id]
                                   ELSE temp_copy_property_input
                           entry == SensorEntry(base, mujoco_device_name, inc)
                       IN /\ temp_copy_property_input' = entry
                          /\ capabilities' = CapSet("input", device_name, device_id, entry)
                          /\ idx' = idx + 1
                          /\ pc' = pc
          ELSE /\ idx' = idx + 1
               /\ UNCHANGED <<capabilities, temp_copy_property_input, increment,
                              list_to_not_delete_device, pc>>
    /\ UNCHANGED <<config_capabilities, sensor_information, actuator_information,
                   temp_copy_property_output>>

\* lines 239-240, once the sensors are done
StartActuators ==
    /\ pc = "sensors"
    /\ idx > Len(sensor_information)
    /\ temp_copy_property_output' = EmptyDict
    /\ increment' = 0
    /\ pc' = "actuators"
    /\ idx' = 1
    /\ UNCHANGED <<config_capabilities, capabilities, sensor_information,
                   actuator_information, list_to_not_delete_device,
                   temp_copy_property_input>>

\* one iteration of the loop of lines 242-262
ActuatorStep ==
    /\ pc = "actuators"
    /\ idx <= Len(actuator_information)
    /\ LET mujoco_device_name == actuator_information[idx].name
           device_name == TRANSMISSION_TYPES(actuator_information[idx].type)
           range_control == actuator_information[idx].range
           inc == NextIncrement(device_name)
           device_id == ToString(inc)
       IN IF device_name \in DOMAIN capabilities.output
          THEN /\ increment' = inc
               /\ list_to_not_delete_device' = NextSeen(device_name)
               /\ IF inc = 0 /\ device_id \notin DOMAIN capabilities.output[device_name]
                  THEN \* KeyError at line 253
                       /\ pc' = "error"
                       /\ UNCHANGED <<capabilities, temp_copy_property_output, idx>>
                  ELSE LET base == IF inc = 0
                                   THEN capabilities.output[device_name][device_id]
                                   ELSE temp_copy_property_output
                           entry == ActuatorEntry(base, device_name, range_control,
                                                  mujoco_device_name, inc)
                       IN /\ temp_copy_property_output' = entry
                          /\ capabilities' = CapSet("output", device_name, device_id, entry)
                          /\ idx' = idx + 1
                          /\ pc' = pc
          ELSE /\ idx' = idx + 1
               /\ UNCHANGED <<capabilities, temp_copy_property_output, increment,
                              list_to_not_delete_device, pc>>
    /\ UNCHANGED <<config_capabilities, sensor_information, actuator_information,
                   temp_copy_property_input>>

\* lines 264-268: a category stays when its name is in the list
Pruned(caps, seen) ==
    [I_O \in DOMAIN caps |-> DictKeep(caps[I_O], Range(seen))]

Prune ==
    /\ pc = "actuators"
    /\ idx > Len(actuator_information)
    /\ capabilities' = Pruned(capabilities, list_to_not_delete_device)
    /\ pc' = "done"
    /\ UNCHANGED <<config_capabilities, sensor_information, actuator_information,
                   list_to_not_delete_device, increment, temp_copy_property_input,
                   temp_copy_property_output, idx>>

Next ==
    \/ SensorStep /\ UNCHANGED <<sensorVars, flagVars, actionVars, loopVars>>
    \/ StartActuators /\ UNCHANGED <<sensorVars, flagVars, actionVars, loopVars>>
    \/ ActuatorStep /\ UNCHANGED <<sensorVars, flagVars, actionVars, loopVars>>
    \/ Prune /\ UNCHANGED <<sensorVars, flagVars, actionVars, loopVars>>

Spec == Init /\ [][Next]_vars

(***************************************************************************)
(* The devices of a section that map to a category, in discovery order.    *)
(***************************************************************************)
IsSensorOf(cat, d) == SENSING_TYPES(d.type) = cat
IsActuatorOf(cat, d) == TRANSMISSION_TYPES(d.type) = cat

DevicesOf(sec, cat) ==
    IF sec = "input"
    THEN SelectSeq(sensor_information, LAMBDA d : IsSensorOf(cat, d))
    ELSE SelectSeq(actuator_information, LAMBDA d : IsActuatorOf(cat, d))

Sections == {"input", "output"}

\* C1: after reconciliation, for every section and template category, the
\* k-th discovered device of the category sits at index key k-1 with
\* feagi_index k-1, whatever the discovery order.
C1_ConsecutiveIndices ==
    pc = "done" =>
        \A sec \in Sections : \A cat \in DOMAIN config_capabilities[sec] :
            LET devs == DevicesOf(sec, cat)
            IN \A k \in 1..Len(devs) :
                /\ cat \in DOMAIN capabilities[sec]
                /\ ToString(k - 1) \in DOMAIN capabilities[sec][cat]
                /\ capabilities[sec][cat][ToString(k - 1)].custom_name = devs[k].name
                /\ capabilities[sec][cat][ToString(k - 1)].feagi_index = k - 1

\* C2: after pruning, a template category of a section to which no
\* discovered device of that section maps is absent from that section.
C2_UnseenCategoryAbsent ==
    pc = "done" =>
        \A sec \in Sections : \A cat \in DOMAIN config_capabilities[sec] :
            Len(DevicesOf(sec, cat)) = 0 => cat \notin DOMAIN capabilities[sec]

\* C3: after reconciliation, every remaining entry carries the name of a
\* discovered device that maps to the entry's category.
C3_EveryEntryDiscovered ==
    pc = "done" =>
        \A sec \in Sections : \A cat \in DOMAIN capabilities[sec] :
            \A key \in DOMAIN capabilities[sec][cat] :
                \E k \in DOMAIN DevicesOf(sec, cat) :
                    capabilities[sec][cat][key].custom_name = DevicesOf(sec, cat)[k].name

\* C4: every entry under output.servo that carries the name of a discovered
\* position actuator has that actuator's control range as min_value and
\* max_value.
C4_ServoRange ==
    "servo" \in DOMAIN capabilities.output =>
        \A key \in DOMAIN capabilities.output["servo"] :
            \A i \in DOMAIN actuator_information :
                ( /\ actuator_information[i].type = "position"
                  /\ capabilities.output["servo"][key].custom_name
                        = actuator_information[i].name )
                => /\ capabilities.output["servo"][key].min_value
                        = actuator_information[i].range[1]
                   /\ capabilities.output["servo"][key].max_value
                        = actuator_information[i].range[2]

\* two position actuators with different ranges, with a motor between them,
\* have been written to output.servo
C4_Witness ==
    /\ pc = "done"
    /\ "servo" \in DOMAIN capabilities.output
    /\ {"0", "1"} \subseteq DOMAIN capabilities.output["servo"]
    /\ \E i, j, m \in DOMAIN actuator_information :
        /\ i < m /\ m < j
        /\ actuator_information[m].type = "motor"
        /\ actuator_information[i].type = "position"
        /\ actuator_information[j].type = "position"
        /\ actuator_information[i].range # actuator_information[j].range
        /\ capabilities.output["servo"]["0"].custom_name = actuator_information[i].name
        /\ capabilities.output["servo"]["1"].custom_name = actuator_information[j].name
        /\ capabilities.output["servo"]["1"].min_value = actuator_information[j].range[1]

\* the names of the discovered devices of a section that map to a category
DeviceNames(sec, cat) == {d.name : d \in Range(DevicesOf(sec, cat))}

\* the fields the reconciliation writes for each device of a category
PerDeviceFields(sec, cat) ==
    {"custom_name", "feagi_index"} \cup
    (CASE sec = "output" /\ cat = "servo" -> {"min_value", "max_value"}
       [] sec = "output" /\ cat = "motor" -> {"max_power", "rolling_window_len"}
       [] OTHER -> {})

\* C11: every entry written for a device of category C has, in each field
\* other than the per-device ones, the value of the template's entry at
\* C/"0", and has no field of the template of another category.
C11_BuiltFromOwnTemplate ==
    \A sec \in Sections :
        \A cat \in (DOMAIN capabilities[sec]) \cap (DOMAIN config_capabilities[sec]) :
            \A key \in DOMAIN capabilities[sec][cat] :
                capabilities[sec][cat][key].custom_name \in DeviceNames(sec, cat) =>
                    LET entry == capabilities[sec][cat][key]
                        base == config_capabilities[sec][cat]["0"]
                    IN /\ DOMAIN entry = (DOMAIN base) \cup PerDeviceFields(sec, cat)
                       /\ \A f \in (DOMAIN base) \ PerDeviceFields(sec, cat) :
                            entry[f] = base[f]

\* the keys of SENSING_TYPES and of TRANSMISSION_TYPES
SensingKeys == {"framequat", "distance", "rangefinder"}
TransmissionKeys == {"position", "motor"}

\* the kind of the sensor has no entry in SENSING_TYPES, or its category is
\* not in the input section of the template
UnmappedSensor(d) ==
    \/ d.type \notin SensingKeys
    \/ SENSING_TYPES(d.type) \notin DOMAIN config_capabilities.input

\* the same for an actuator, TRANSMISSION_TYPES and the output section
UnmappedActuator(d) ==
    \/ d.type \notin TransmissionKeys
    \/ TRANSMISSION_TYPES(d.type) \notin DOMAIN config_capabilities.output

\* the loop at pc is about to read an unmapped device
AtUnmappedDevice ==
    \/ /\ pc = "sensors"
       /\ idx <= Len(sensor_information)
       /\ UnmappedSensor(sensor_information[idx])
    \/ /\ pc = "actuators"
       /\ idx <= Len(actuator_information)
       /\ UnmappedActuator(actuator_information[idx])

UnmappedNames ==
    {d.name : d \in {x \in Range(sensor_information) : UnmappedSensor(x)}}
    \cup {d.name : d \in {x \in Range(actuator_information) : UnmappedActuator(x)}}

\* C12: the iteration that reads an unmapped device raises nothing and
\* changes neither the capabilities, nor the list of seen categories, nor the
\* counter, nor the base records, so that every later device is handled as
\* if the unmapped one were not there; and no entry ever carries its name.
C12_UnmappedDropped ==
    /\ [][ AtUnmappedDevice =>
             /\ pc' = pc
             /\ idx' = idx + 1
             /\ UNCHANGED <<capabilities, list_to_not_delete_device, increment,
                            temp_copy_property_input, temp_copy_property_output>> ]_vars
    /\ [](\A sec \in Sections : \A cat \in DOMAIN capabilities[sec] :
            \A key \in DOMAIN capabilities[sec][cat] :
                capabilities[sec][cat][key].custom_name \notin UnmappedNames)

\* a sensor of a kind without a category and a sensor whose category the
\* template lacks were discovered between two gyro sensors, which sit at the
\* index keys "0" and "1"
C12_Witness ==
    /\ pc = "done"
    /\ "gyro" \in DOMAIN capabilities.input
    /\ "proximity" \notin DOMAIN config_capabilities.input
    /\ Len(sensor_information) = 4
    /\ sensor_information[1].type = "framequat"
    /\ sensor_information[2].type = "touch"
    /\ sensor_information[3].type = "distance"
    /\ sensor_information[4].type = "framequat"
    /\ {"0", "1"} \subseteq DOMAIN capabilities.input["gyro"]
    /\ capabilities.input["gyro"]["0"].custom_name = sensor_information[1].name
    /\ capabilities.input["gyro"]["1"].custom_name = sensor_information[4].name
    /\ list_to_not_delete_device = <<"gyro">>

\* the index keys of a category whose entry carries the name of a device
KeysOfDevice(sec, cat, name) ==
    {key \in DOMAIN capabilities[sec][cat] :
        capabilities[sec][cat][key].custom_name = name}

\* C13: once the reconciliation has run, every discovered device of a
\* template category has an entry of that category under a key no other
\* device has, and the category has as many entries named after a discovered
\* device as it has discovered devices.
C13_NoDeviceLost ==
    pc = "done" =>
        \A sec \in Sections :
            \A cat \in DOMAIN config_capabilities[sec] :
                DeviceNames(sec, cat) # {} =>
                    /\ cat \in DOMAIN capabilities[sec]
                    /\ \A name \in DeviceNames(sec, cat) :
                           KeysOfDevice(sec, cat, name) # {}
                    /\ Cardinality({key \in DOMAIN capabilities[sec][cat] :
                           capabilities[sec][cat][key].custom_name
                               \in DeviceNames(sec, cat)})
                         = Len(DevicesOf(sec, cat))

(***************************************************************************)
(* The sensor descriptors, lines 208-218.  A scene name is the sequence of *)
(* its characters.                                                         *)
(***************************************************************************)
\* the raw sensor type line 215 tests for
QuatRawType == 7

HeadGyroAbcd == <<"h", "e", "a", "d", "_", "g", "y", "r", "o", "_", "a", "b", "c", "d">>
HeadGyroUnderscore == <<"h", "e", "a", "d", "_", "g", "y", "r", "o", "_">>
HeadGyro == <<"h", "e", "a", "d", "_", "g", "y", "r", "o">>

SceneNames == {HeadGyroAbcd, HeadGyroUnderscore, HeadGyro, <<"r", "f">>,
               <<"l", "i", "d", "a", "r">>}

RawTypes == {QuatRawType, 1}

\* name[:-5]
DropLastFive(name) ==
    IF Len(name) > 5 THEN SubSeq(name, 1, Len(name) - 5) ELSE <<>>

\* name[:-4] of line 216
DropSuffix(name) ==
    IF Len(name) > 4 THEN SubSeq(name, 1, Len(name) - 4) ELSE <<>>

\* lines 211-216
DescriptorName(sensor) ==
    IF sensor.type = QuatRawType THEN DropSuffix(sensor.name) ELSE sensor.name

\* d[name] = value on the items of a dict: a key already there keeps its place
ItemsSet(items, name, value) ==
    IF \E i \in DOMAIN items : items[i].name = name
    THEN [i \in DOMAIN items |->
            IF items[i].name = name THEN value ELSE items[i]]
    ELSE Append(items, value)

\* the sensors of a model have distinct names
ModelSensors ==
    { s \in SeqsUpTo([name : SceneNames, type : RawTypes], MaxSensors) :
        \A i, j \in DOMAIN s : i # j => s[i].name # s[j].name }

\* what get_sensors (lines 159-173) read from the scene file
XmlInputs ==
    { [n \in D |-> t] :
        D \in { {}, SceneNames, SceneNames \cup {DropSuffix(n) : n \in SceneNames} },
        t \in {"framequat", "rangefinder"} }

InitSensors ==
    /\ IdleRecon /\ IdleFlag /\ IdleAction /\ IdleLoop
    /\ model_sensors \in ModelSensors
    /\ xml_input \in XmlInputs
    /\ sensor_name = None
    /\ sensor_information = <<>>
    /\ pc = "build_sensors"
    /\ idx = 1

\* one iteration of the loop of lines 208-218
BuildSensor ==
    /\ pc = "build_sensors"
    /\ idx <= Len(model_sensors)
    /\ sensor_name' = DescriptorName(model_sensors[idx])
    /\ IF sensor_name' \in DOMAIN xml_input
       THEN /\ sensor_information' =
                ItemsSet(sensor_information, sensor_name',
                         [name |-> sensor_name', type |-> xml_input[sensor_name']])
            /\ pc' = pc
       ELSE \* KeyError at line 217
            /\ pc' = "lookup_error"
            /\ UNCHANGED sensor_information
    /\ idx' = idx + 1
    /\ UNCHANGED <<model_sensors, xml_input>>

\* the loop of lines 208-218 is over
SensorsBuilt ==
    /\ pc = "build_sensors"
    /\ idx > Len(model_sensors)
    /\ pc' = "sensors_built"
    /\ UNCHANGED <<sensor_information, idx, sensorVars>>

NextSensors ==
    \/ BuildSensor
         /\ UNCHANGED reconData
         /\ UNCHANGED <<flagVars, actionVars, loopVars>>
    \/ SensorsBuilt
         /\ UNCHANGED reconData
         /\ UNCHANGED <<flagVars, actionVars, loopVars>>

SpecSensors == InitSensors /\ [][NextSensors]_vars

\* the sensor the last iteration of the loop read
LastSensor == model_sensors[idx - 1]

SensorRead == pc \in {"build_sensors", "lookup_error", "sensors_built"} /\ idx > 1

\* C7 as stated: the descriptor name of the quaternion sensor head_gyro_abcd
\* is head_gyro, and the name of every other sensor is kept.
C7_HeadGyroExample ==
    SensorRead =>
        /\ (LastSensor.type = QuatRawType /\ LastSensor.name = HeadGyroAbcd)
              => sensor_name = HeadGyro
        /\ LastSensor.type # QuatRawType => sensor_name = LastSensor.name

\* C7 as amended: the descriptor name of a sensor of the tested raw type is
\* the scene name without its last four characters (head_gyro_abcd gives
\* head_gyro_, with the underscore), it is the key of the descriptor, and the
\* name of every other sensor is kept.
C7_DropsFourCharacters ==
    SensorRead =>
        /\ (LastSensor.type = QuatRawType /\ Len(LastSensor.name) >= 4)
              => /\ Len(sensor_name) = Len(LastSensor.name) - 4
                 /\ \A i \in 1..Len(sensor_name) : sensor_name[i] = LastSensor.name[i]
        /\ (LastSensor.type = QuatRawType /\ Len(LastSensor.name) < 4)
              => sensor_name = <<>>
        /\ (LastSensor.type = QuatRawType /\ LastSensor.name = HeadGyroAbcd)
              => sensor_name = HeadGyroUnderscore
        /\ LastSensor.type # QuatRawType => sensor_name = LastSensor.name
        /\ pc # "lookup_error"
              => \E i \in DOMAIN sensor_information :
                    sensor_information[i].name = sensor_name

\* the descriptor of the quaternion sensor head_gyro_abcd has been written
C7_Witness ==
    /\ pc = "sensors_built"
    /\ idx > 1
    /\ LastSensor.type = QuatRawType
    /\ LastSensor.name = HeadGyroAbcd
    /\ \E i \in DOMAIN sensor_information :
        sensor_information[i].name = HeadGyroUnderscore

(***************************************************************************)
(* check_the_flag(), lines 106-135.  An argument of the command line is a  *)
(* record: the flag itself, the flag with =VALUE attached, another option  *)
(* (a string that starts with '-'), or a plain word.                       *)
(***************************************************************************)
FlagToken == [kind |-> "flag", value |-> "--model_xml_path"]

DefaultPath == "./humanoid.xml"

\* the arguments command lines are drawn from (abbreviations of the flag,
\* which the parser accepts as well, and "--" are not among them)
Args ==
    { FlagToken,
      [kind |-> "flag_eq", value |-> "a.xml"],
      [kind |-> "option", value |-> "--port"],
      [kind |-> "word", value |-> "a.xml"],
      [kind |-> "word", value |-> "3000"] }

\* parser.parse_known_args() of line 115 on argv from position i on: the
\* flag takes the next argument as its value when that is a plain word and
\* is a usage error otherwise; the =VALUE form carries its value; whatever
\* else is left goes to remaining_args in its order.
RECURSIVE ParseKnownArgs(_, _, _, _)
ParseKnownArgs(argv, i, p, remaining_args) ==
    IF i > Len(argv)
    THEN [error |-> FALSE, model_xml_path |-> p, remaining_args |-> remaining_args]
    ELSE CASE argv[i].kind = "flag" ->
                IF i + 1 <= Len(argv) /\ argv[i + 1].kind = "word"
                THEN ParseKnownArgs(argv, i + 2, argv[i + 1].value, remaining_args)
                ELSE [error |-> TRUE, model_xml_path |-> p,
                      remaining_args |-> remaining_args]
           [] argv[i].kind = "flag_eq" ->
                ParseKnownArgs(argv, i + 1, argv[i].value, remaining_args)
           [] OTHER ->
                ParseKnownArgs(argv, i + 1, p, Append(remaining_args, argv[i]))

\* the loop of lines 123-132 on argv from position i on
RECURSIVE CleanedArgs(_, _, _, _)
CleanedArgs(argv, i, skip_next, cleaned_args) ==
    IF i > Len(argv)
    THEN cleaned_args
    ELSE IF skip_next
         THEN CleanedArgs(argv, i + 1, FALSE, cleaned_args)
         ELSE IF argv[i] = FlagToken
              THEN CleanedArgs(argv, i + 1, TRUE, cleaned_args)
              ELSE CleanedArgs(argv, i + 1, FALSE, Append(cleaned_args, argv[i]))

InitFlag ==
    /\ IdleRecon /\ IdleSensors /\ IdleAction /\ IdleLoop
    /\ sensor_information = <<>>
    /\ idx = 1
    /\ given_argv \in SeqsUpTo(Args, MaxArgs)
    /\ sys_argv = given_argv
    /\ path = None
    /\ pc = "parse_args"

\* lines 107-117; a usage error ends the process
ParseArgs ==
    /\ pc = "parse_args"
    /\ LET args == ParseKnownArgs(sys_argv, 1, DefaultPath, <<>>)
       IN IF args.error
          THEN pc' = "usage_error" /\ UNCHANGED path
          ELSE pc' = "clean_args" /\ path' = args.model_xml_path
    /\ UNCHANGED <<given_argv, sys_argv>>

\* lines 123-135
CleanArgs ==
    /\ pc = "clean_args"
    /\ sys_argv' = CleanedArgs(sys_argv, 1, FALSE, <<>>)
    /\ pc' = "flag_checked"
    /\ UNCHANGED <<given_argv, path>>

NextFlag ==
    \/ ParseArgs /\ UNCHANGED <<sensor_information, idx>>
         /\ UNCHANGED reconData
         /\ UNCHANGED <<sensorVars, actionVars, loopVars>>
    \/ CleanArgs /\ UNCHANGED <<sensor_information, idx>>
         /\ UNCHANGED reconData
         /\ UNCHANGED <<sensorVars, actionVars, loopVars>>

SpecFlag == InitFlag /\ [][NextFlag]_vars

\* C8: after check_the_flag(), sys.argv[1:] is the command line without the
\* flag and its value, in both forms the parser accepts, everything else
\* kept in order, and the path is the value given last or the default.
C8_FlagRemoved ==
    pc = "flag_checked" =>
        /\ sys_argv = ParseKnownArgs(given_argv, 1, DefaultPath, <<>>).remaining_args
        /\ \A i \in DOMAIN sys_argv : sys_argv[i].kind \in {"option", "word"}
        /\ path = ParseKnownArgs(given_argv, 1, DefaultPath, <<>>).model_xml_path

(***************************************************************************)
(* action(), lines 52-70.  data.ctrl is the sequence of its slots, slot i  *)
(* of the code being ctrl[i + 1].  A payload is the sequence of the items  *)
(* of the dict, in the order the for loop reads them.                      *)
(***************************************************************************)
\* the payloads with at most maxlen channels drawn from ids, all of power
Payloads(ids, maxlen, power) ==
    { [i \in DOMAIN s |-> [real_id |-> s[i], power |-> power]] :
        s \in { t \in SeqsUpTo(ids, maxlen) :
                  \A i, j \in DOMAIN t : i # j => t[i] # t[j] } }

\* what get_servo_position_data and get_servo_data (lines 53-54) return
Messages(ids, maxlen) ==
    [servo_position : Payloads(ids, maxlen, 1), servo : Payloads(ids, maxlen, 2)]

\* data.ctrl[servo_number] = power: an index below zero counts from the end
\* of the array, and one below -len(data.ctrl) is an IndexError
SlotOf(c, servo_number) ==
    IF servo_number >= 0 THEN servo_number + 1 ELSE Len(c) + servo_number + 1

\* one of the loops of lines 58-62 and 66-70, from item i on;
\* st = [ctrl, error]
RECURSIVE ApplyPayload(_, _, _)
ApplyPayload(st, payload, i) ==
    IF i > Len(payload) \/ st.error
    THEN st
    ELSE LET servo_number == payload[i].real_id
             power == payload[i].power
         IN IF (Len(st.ctrl) - 1) >= servo_number
            THEN IF SlotOf(st.ctrl, servo_number) \in DOMAIN st.ctrl
                 THEN ApplyPayload(
                        [st EXCEPT !.ctrl[SlotOf(st.ctrl, servo_number)] = power],
                        payload, i + 1)
                 ELSE [st EXCEPT !.error = TRUE]
            ELSE ApplyPayload(st, payload, i + 1)

\* action(obtained_data): the position payload, then the servo payload
ActionResult(c, obtained_data) ==
    ApplyPayload(ApplyPayload([ctrl |-> c, error |-> FALSE],
                              obtained_data.servo_position, 1),
                 obtained_data.servo, 1)

\* data.ctrl before the call: the keyframe of line 301 and earlier calls
\* have set it
CtrlValues == {0, 1, 2}

ActionIds == (0 - (MaxActuators + 1))..MaxActuators

InitAction ==
    /\ IdleRecon /\ IdleSensors /\ IdleFlag /\ IdleLoop
    /\ sensor_information = <<>>
    /\ idx = 1
    /\ ctrl \in UNION {[1..n -> CtrlValues] : n \in 0..MaxActuators}
    /\ message_from_feagi = NoMessage
    /\ pc = "waiting"

\* the message of FEAGI that action() is called with arrives
Receive ==
    /\ pc = "waiting"
    /\ message_from_feagi' \in Messages(ActionIds, MaxPayload)
    /\ pc' = "received"
    /\ UNCHANGED ctrl

\* action(obtained_signals)
Act ==
    /\ pc = "received"
    /\ LET r == ActionResult(ctrl, message_from_feagi)
       IN /\ ctrl' = r.ctrl
          /\ pc' = IF r.error THEN "index_error" ELSE "applied"
    /\ UNCHANGED message_from_feagi

NextAction ==
    \/ Receive /\ UNCHANGED <<sensor_information, idx>>
         /\ UNCHANGED reconData
         /\ UNCHANGED <<sensorVars, flagVars, loopVars>>
    \/ Act /\ UNCHANGED <<sensor_information, idx>>
         /\ UNCHANGED reconData
         /\ UNCHANGED <<sensorVars, flagVars, loopVars>>

SpecAction == InitAction /\ [][NextAction]_vars

ChannelIds(payload) == {payload[i].real_id : i \in DOMAIN payload}

\* the value a payload holds for a channel
PowerAt(payload, real_id) ==
    payload[CHOOSE i \in DOMAIN payload : payload[i].real_id = real_id].power

\* C5: action() leaves in every slot 0..n-1 named by the payload the
\* payload's value, leaves every other slot as it was, and ignores every
\* index outside 0..n-1, negative ones too, without an error.
C5_OnlyInRangeSlots ==
    [][ (pc = "received" /\ pc' # "received") =>
          /\ pc' = "applied"
          /\ Len(ctrl') = Len(ctrl)
          /\ \A slot \in 0..(Len(ctrl) - 1) :
                ctrl'[slot + 1] =
                    IF slot \in ChannelIds(message_from_feagi.servo)
                    THEN PowerAt(message_from_feagi.servo, slot)
                    ELSE IF slot \in ChannelIds(message_from_feagi.servo_position)
                         THEN PowerAt(message_from_feagi.servo_position, slot)
                         ELSE ctrl[slot + 1] ]_vars

(***************************************************************************)
(* The runtime loop, lines 290-548.  Time is a discrete clock; the tick    *)
(* period 1 / SPEED is TickBudget units.  The value [0, 0, 0] of the force *)
(* record is <<0, 0, 0>>, a sampled contact force is <<1, 1, 1>>.          *)
(***************************************************************************)
\* range(20) of line 292
ForceCapacity == 20

Infinity == "inf"

\* line 36
RUNTIME == Infinity

\* time.time() - start_time < RUNTIME fails
TimedOut == RUNTIME # Infinity /\ now - start_time >= RUNTIME

\* a loop that also stops when no message has come
LoopContinuesWhileMessages ==
    viewer_running /\ ~TimedOut /\ message_from_feagi # NoMessage

\* the condition of the while of line 306
LoopContinues == viewer_running /\ ~TimedOut

\* lines 291-293
InitialForceList == [k \in {ToString(x) : x \in 0..(ForceCapacity - 1)} |-> <<0, 0, 0>>]

\* the loop of lines 472-479 with data.ncon = ncon
SampledForces(forces, ncon) ==
    LET keys == {ToString(i) : i \in 0..(ncon - 1)}
    IN [k \in (DOMAIN forces) \cup keys |->
            IF k \in keys THEN <<1, 1, 1>> ELSE forces[k]]

\* what pns.message_from_feagi holds when line 311 reads it: nothing, a
\* channel in range, a channel above the range, one that counts from the
\* end of data.ctrl, and one below -len(data.ctrl)
LoopMessages ==
    { NoMessage,
      [servo_position |-> <<>>, servo |-> <<[real_id |-> 0, power |-> 2]>>],
      [servo_position |-> <<[real_id |-> 1, power |-> 1]>>, servo |-> <<>>],
      [servo_position |-> <<>>, servo |-> <<[real_id |-> -1, power |-> 2]>>],
      [servo_position |-> <<>>, servo |-> <<[real_id |-> -2, power |-> 2]>>] }

InitLoop ==
    /\ IdleRecon /\ IdleSensors /\ IdleFlag
    /\ sensor_information = <<>>
    /\ idx = 1
    /\ ctrl \in {<<>>, <<0>>}
    /\ message_from_feagi = NoMessage
    /\ force_list = InitialForceList
    /\ viewer_running = TRUE
    /\ now = 0
    /\ start_time = now
    /\ step_start = 0
    /\ ticks = 0
    /\ tick_work = 0
    /\ in_budget = TRUE
    /\ pc = "loop_cond"

\* the user closes the viewer window
CloseViewer ==
    /\ pc \in {"loop_cond", "step", "contacts", "sleep", "send"}
    /\ viewer_running
    /\ viewer_running' = FALSE
    /\ UNCHANGED <<pc, actionVars, force_list, now, start_time, step_start,
                   ticks, tick_work, in_budget>>

\* lines 306-307
LoopCond ==
    /\ pc = "loop_cond"
    /\ ticks < MaxTicks \/ ~LoopContinues
    /\ IF LoopContinues
       THEN pc' = "step" /\ step_start' = now
       ELSE pc' = "exited" /\ UNCHANGED step_start
    /\ UNCHANGED <<actionVars, force_list, viewer_running, now, start_time,
                   ticks, tick_work, in_budget>>

\* lines 308-316: the physics step, then action() on the message, if any
StepAndAct ==
    /\ pc = "step"
    /\ message_from_feagi' \in LoopMessages
    /\ IF message_from_feagi' # NoMessage
       THEN LET r == ActionResult(ctrl, message_from_feagi')
            IN /\ ctrl' = r.ctrl
               /\ pc' = IF r.error THEN "raised" ELSE "contacts"
       ELSE /\ ctrl' = ctrl
            /\ pc' = "contacts"
    /\ UNCHANGED loopVars

\* lines 468-483: the contact forces and viewer.sync(); the work of the
\* tick up to here has taken w clock units
SampleContacts ==
    /\ pc = "contacts"
    /\ \E ncon \in 0..MaxContacts : force_list' = SampledForces(force_list, ncon)
    /\ \E w \in 0..TickBudget : now' = now + w
    /\ pc' = "sleep"
    /\ UNCHANGED <<actionVars, viewer_running, start_time, step_start, ticks,
                   tick_work, in_budget>>

\* lines 486-488
Sleep ==
    /\ pc = "sleep"
    /\ LET time_until_next_step == TickBudget - (now - step_start)
       IN now' = IF time_until_next_step > 0
                 THEN now + time_until_next_step
                 ELSE now
    /\ tick_work' = now - step_start
    /\ pc' = "send"
    /\ UNCHANGED <<actionVars, force_list, viewer_running, start_time,
                   step_start, ticks, in_budget>>

\* lines 547-548: the send returns after s clock units
Send ==
    /\ pc = "send"
    /\ \E s \in 0..MaxSend :
        /\ now' = now + s
        /\ in_budget' = (in_budget /\ tick_work + s < TickBudget)
    /\ ticks' = ticks + 1
    /\ tick_work' = 0
    /\ pc' = "loop_cond"
    /\ UNCHANGED <<actionVars, force_list, viewer_running, start_time, step_start>>

\* line 547: the send raises, and nothing catches it
SendFails ==
    /\ pc = "send"
    /\ pc' = "raised"
    /\ UNCHANGED <<actionVars, loopVars>>

NextLoop ==
    \/ CloseViewer /\ UNCHANGED <<sensor_information, idx>>
         /\ UNCHANGED reconData
         /\ UNCHANGED <<sensorVars, flagVars>>
    \/ LoopCond /\ UNCHANGED <<sensor_information, idx>>
         /\ UNCHANGED reconData
         /\ UNCHANGED <<sensorVars, flagVars>>
    \/ StepAndAct /\ UNCHANGED <<sensor_information, idx>>
         /\ UNCHANGED reconData
         /\ UNCHANGED <<sensorVars, flagVars>>
    \/ SampleContacts /\ UNCHANGED <<sensor_information, idx>>
         /\ UNCHANGED reconData
         /\ UNCHANGED <<sensorVars, flagVars>>
    \/ Sleep /\ UNCHANGED <<sensor_information, idx>>
         /\ UNCHANGED reconData
         /\ UNCHANGED <<sensorVars, flagVars>>
    \/ Send /\ UNCHANGED <<sensor_information, idx>>
         /\ UNCHANGED reconData
         /\ UNCHANGED <<sensorVars, flagVars>>
    \/ SendFails /\ UNCHANGED <<sensor_information, idx>>
         /\ UNCHANGED reconData
         /\ UNCHANGED <<sensorVars, flagVars>>

SpecLoop == InitLoop /\ [][NextLoop]_vars

\* C6: the contact-force record always holds exactly the keys "0".."19".
C6_FixedCapacity ==
    DOMAIN force_list = {ToString(x) : x \in 0..(ForceCapacity - 1)}

\* C9: while every tick has kept its work, the send included, below the tick
\* budget, the time N ticks have taken differs from N tick periods by at
\* most one tick period.
C9_NoDrift ==
    (pc = "loop_cond" /\ in_budget) =>
        /\ (now - start_time) - ticks * TickBudget <= TickBudget
        /\ ticks * TickBudget - (now - start_time) <= TickBudget

LoopOver == pc \in {"exited", "raised"}

\* C10 as stated: the loop ends only when the viewer has been closed or the
\* timeout has elapsed, and goes on to another tick otherwise.
C10_EndsOnlyByCloseOrTimeout ==
    [][ /\ (LoopOver' /\ ~LoopOver) => (~viewer_running \/ TimedOut)
        /\ (pc = "loop_cond" /\ pc' # pc /\ viewer_running /\ ~TimedOut)
              => pc' = "step" ]_vars

\* C10 as amended: the loop ends only at its condition, when the viewer has
\* been closed or the timeout has elapsed, or by an exception that a call of
\* the tick raises (action() or the send); at its condition, with the viewer
\* running and the timeout not elapsed, it goes on to another tick.
C10_EndsByCloseTimeoutOrException ==
    [][ /\ (LoopOver' /\ ~LoopOver) =>
              \/ pc = "loop_cond" /\ pc' = "exited" /\ (~viewer_running \/ TimedOut)
              \/ pc \in {"step", "send"} /\ pc' = "raised"
        /\ (pc = "loop_cond" /\ pc' # pc /\ viewer_running /\ ~TimedOut)
              => pc' = "step" ]_vars

\* the loop has run a tick and has then been ended by an exception, the
\* viewer still running
C10_Witness ==
    /\ pc = "raised"
    /\ viewer_running
    /\ ~TimedOut
    /\ ticks > 0

====
